---- MODULE Spec2Model ----
(***************************************************************************)
(* Model of airshipctl's out-of-band host manager (package remote):        *)
(* NewManager, the ByName / ByLabel host selectors, newBaremetalHost and   *)
(* reconcileHosts.  One behaviour is one invocation of NewManager against  *)
(* a fixed document bundle, a management configuration and an ordered list *)
(* of host selectors.                                                      *)
(***************************************************************************)
EXTENDS Integers, Sequences, FiniteSets, TLC

\* ------------------------------------------------------------------ bounds
NumDocs == 2            \* BareMetalHost documents in the bundle
MaxSelectors == 3       \* longest selector list handed to NewManager
MaxRetries == 3         \* largest SystemActionRetries
MaxDelay == 2           \* largest SystemRebootDelay
MaxFailures == 4        \* most transient failures an action meets in a row
MaxRev == 2             \* newest revision the remote of a repository reaches

\* ------------------------------------------------------------------ inputs
DocIds == 1..NumDocs
Names == {"A", "B"}
Labels == {"x"}

RedfishClientType == "redfish"
RedfishDellClientType == "redfish-dell"
ManagementTypes == {RedfishClientType, RedfishDellClientType, "bogus"}

\* A HostSelector value: the closure returned by ByLabel(label) or ByName(name).
HostSelectors ==
    [kind : {"ByLabel"}, arg : Labels] \cup [kind : {"ByName"}, arg : Names]

SelectorLists == UNION {[1..n -> HostSelectors] : n \in 0..MaxSelectors}

\* One BareMetalHost document: its name and its label set.
Documents == [name : Names, labels : SUBSET Labels]

\* Outcomes of resolving one document into a host that are not success.
FaultKinds == {"address", "credentials", "client"}

\* ------------------------------------------------------------------ errors
NoError == "nil"
ErrConfig == "ErrMissingConfig"
ErrUnknownManagementType == "ErrUnknownManagementType"
ErrPhase == "ErrPhase"
ErrBundle == "ErrBundle"
ErrDocNotFound == "ErrDocNotFound"
ErrMultiDocsFound == "ErrMultiDocsFound"
ErrBMCAddress == "ErrBMCAddress"
ErrBMCCredentials == "ErrBMCCredentials"
ErrClient == "ErrClient"
ErrNoHostsFound == "ErrNoHostsFound"

\* ------------------------------------------------------------------- state
VARIABLES
    docBundle,      \* DocIds -> Documents, the phase's document bundle
    faultyDoc,      \* the document whose BMC data cannot be resolved (0: none)
    mgmtType,       \* ManagementConfiguration.Type of the current context
    hosts,          \* NewManager's variadic argument: the selector list
    pc,             \* position inside NewManager
    next,           \* index of the selector the loop runs next
    Hosts,          \* manager.Hosts
    ret,            \* NewManager's return values once pc = "done"
    validations,    \* calls of managementCfg.Validate so far
    phaseResolved,  \* phase helper/client/document root were requested
    bundleLoaded,   \* document.NewBundleByPath was called
    selections,     \* calls of docBundle.Select / SelectOne so far
    resolutions,    \* calls of GetBMHBMCAddress / GetBMHBMCCredentials so far
    clients,        \* vendor NewClient calls so far
    outcomes,       \* error returned by each selector that has run
    contexts,       \* state of the Context each vendor constructor returned
    results,        \* result of the last operation invoked on each Client
    mgmtCfg,        \* SystemActionRetries and SystemRebootDelay of the config
    redfishClient,         \* what the vendor constructor was given for one host
    op,             \* one stateful operation of that client: its attempts
    storer,         \* the git storage the Repository objects share
    worktree,       \* revision checked out in the shared filesystem (0: none)
    remote,         \* revision the remote is at
    driver,         \* per Repository object: GitDriver.Repository is not nil
    authFails,      \* per Repository object: ToAuth returns an error
    last,           \* the last call on a Repository object and what it did
    prev,           \* the call before it
    spec,           \* a repository spec
    call,           \* the last function applied to it and what it returned
    kubeConfig,     \* the kubeconfig object the airship config is tied to
    config,         \* the airship Config
    rc,             \* reconcileConfig: its position and what it carries on
    got,            \* the last accessor of Config called and its result
    pull            \* cloneRepositories: its position and its drivers

vars == <<docBundle, faultyDoc, mgmtType, hosts, pc, next, Hosts, ret,
          validations, phaseResolved, bundleLoaded, selections, resolutions,
          clients, outcomes, contexts, results, mgmtCfg, redfishClient, op,
          storer, worktree, remote, driver, authFails, last, prev,
          spec, call, kubeConfig, config, rc, got, pull>>

\* State that the construction of a manager leaves alone.
operations == <<contexts, results>>
retrying == <<mgmtCfg, redfishClient, op>>
repository == <<storer, worktree, remote, driver, authFails, last, prev>>
specs == <<spec, call>>
reconciling == <<kubeConfig, config, rc, got, pull>>
beyond == <<retrying, repository, specs, reconciling>>
outside == <<operations, beyond>>

inputs == <<docBundle, faultyDoc, mgmtType, hosts>>
effects == <<validations, phaseResolved, bundleLoaded, selections,
             resolutions, clients>>

\* ---------------------------------------------------------------- helpers
RECURSIVE SeqOfSet(_)
\* the members of a set of document ids in bundle order
SeqOfSet(S) ==
    IF S = {} THEN <<>>
    ELSE LET m == CHOOSE x \in S : \A y \in S : x <= y
         IN  <<m>> \o SeqOfSet(S \ {m})

HostNames(hs) == {hs[k].HostName : k \in 1..Len(hs)}

\* docBundle.Select(NewSelector().ByKind(BareMetalHostKind).ByLabel/ByName):
\* the matching documents, in bundle order.
Select(bundle, sel) ==
    SeqOfSet({d \in DOMAIN bundle :
                 IF sel.kind = "ByLabel" THEN sel.arg \in bundle[d].labels
                 ELSE bundle[d].name = sel.arg})

\* docBundle.SelectOne: exactly one matching document or an error.
SelectOne(bundle, sel) ==
    LET docs == Select(bundle, sel)
    IN  IF Len(docs) = 0 THEN [err |-> ErrDocNotFound, doc |-> 0]
        ELSE IF Len(docs) > 1 THEN [err |-> ErrMultiDocsFound, doc |-> 0]
        ELSE [err |-> NoError, doc |-> docs[1]]

\* ManagementConfiguration.Validate: the type must be a recognized one.
Validate(type) ==
    IF type \in {RedfishClientType, RedfishDellClientType} THEN NoError
    ELSE ErrUnknownManagementType

\* Context of one selector run: the management configuration's type, the
\* bundle, the unresolvable document and the way its resolution fails.
Env(type, bundle, faulty, kind) ==
    [type |-> type, bundle |-> bundle, faulty |-> faulty, kind |-> kind]

NoHost == [HostName |-> "", BMCAddress |-> 0, Client |-> 0, Context |-> 0]

\* newBaremetalHost handing every host one package-wide client and context.
newBaremetalHostSharedClient(env, hostDoc, clientId) ==
    LET fails(k) == env.faulty = hostDoc /\ env.kind = k
    IN  IF fails("address")
        THEN [err |-> ErrBMCAddress, host |-> NoHost,
              resolutions |-> 1, clients |-> 0]
        ELSE IF fails("credentials")
        THEN [err |-> ErrBMCCredentials, host |-> NoHost,
              resolutions |-> 2, clients |-> 0]
        ELSE IF env.type \in {RedfishClientType, RedfishDellClientType}
        THEN IF fails("client")
             THEN [err |-> ErrClient, host |-> NoHost,
                   resolutions |-> 2, clients |-> 1]
             ELSE [err |-> NoError,
                   host |-> [HostName |-> env.bundle[hostDoc].name,
                             BMCAddress |-> hostDoc,
                             Client |-> 1,
                             Context |-> 1],
                   resolutions |-> 2, clients |-> 1]
        ELSE [err |-> ErrUnknownManagementType, host |-> NoHost,
              resolutions |-> 2, clients |-> 0]

\* newBaremetalHost: BMC address, then credentials, then the vendor client
\* chosen by the management type.  clientId names the client a successful
\* constructor call would return.
newBaremetalHost(env, hostDoc, clientId) ==
    LET fails(k) == env.faulty = hostDoc /\ env.kind = k
    IN  IF fails("address")
        THEN [err |-> ErrBMCAddress, host |-> NoHost,
              resolutions |-> 1, clients |-> 0]
        ELSE IF fails("credentials")
        THEN [err |-> ErrBMCCredentials, host |-> NoHost,
              resolutions |-> 2, clients |-> 0]
        ELSE IF env.type \in {RedfishClientType, RedfishDellClientType}
        THEN IF fails("client")
             THEN [err |-> ErrClient, host |-> NoHost,
                   resolutions |-> 2, clients |-> 1]
             ELSE [err |-> NoError,
                   host |-> [HostName |-> env.bundle[hostDoc].name,
                             BMCAddress |-> hostDoc,
                             Client |-> clientId,
                             Context |-> clientId],
                   resolutions |-> 2, clients |-> 1]
        ELSE [err |-> ErrUnknownManagementType, host |-> NoHost,
              resolutions |-> 2, clients |-> 0]

RECURSIVE BuildHostsSkipFailed(_, _, _, _)
\* The loop of ByLabel passing over a document whose host cannot be built.
BuildHostsSkipFailed(env, docs, acc, firstClient) ==
    IF docs = <<>> THEN acc
    ELSE LET r == newBaremetalHost(env, Head(docs), firstClient + acc.clients)
             acc2 == [err |-> NoError,
                      hosts |-> IF r.err = NoError
                                THEN Append(acc.hosts, r.host) ELSE acc.hosts,
                      resolutions |-> acc.resolutions + r.resolutions,
                      clients |-> acc.clients + r.clients]
         IN  BuildHostsSkipFailed(env, Tail(docs), acc2, firstClient)

RECURSIVE BuildHosts(_, _, _, _)
\* The loop of ByLabel over the selected documents: one newBaremetalHost per
\* document, in order, stopping at the first error.
BuildHosts(env, docs, acc, firstClient) ==
    IF docs = <<>> THEN acc
    ELSE LET r == newBaremetalHost(env, Head(docs), firstClient + acc.clients)
             acc2 == [err |-> r.err,
                      hosts |-> IF r.err = NoError
                                THEN Append(acc.hosts, r.host) ELSE acc.hosts,
                      resolutions |-> acc.resolutions + r.resolutions,
                      clients |-> acc.clients + r.clients]
         IN  IF r.err # NoError THEN acc2
             ELSE BuildHosts(env, Tail(docs), acc2, firstClient)

\* reconcileHosts as an accumulator: the new hosts are added to the list.
reconcileHostsAccumulate(existingHosts, newHosts) ==
    existingHosts \o newHosts

\* reconcileHosts: newHosts when there are no existing hosts, otherwise the
\* new hosts whose name is the name of an existing host.
reconcileHosts(existingHosts, newHosts) ==
    IF Len(existingHosts) = 0 THEN newHosts
    ELSE LET hostMap == HostNames(existingHosts)
         IN  SelectSeq(newHosts, LAMBDA host : host.HostName \in hostMap)

\* Result of a selector: its error, the manager's host list afterwards and
\* the calls it made.
SelectorResult(err, hs, sel, res, cl) ==
    [err |-> err, Hosts |-> hs, selections |-> sel,
     resolutions |-> res, clients |-> cl]

\* ByLabel building a host for the first selected document only.
ByLabelFirstOnly(label, aHosts, env, firstClient) ==
    LET docs == Select(env.bundle, [kind |-> "ByLabel", arg |-> label])
        built == BuildHosts(env, SubSeq(docs, 1, 1),
                     [err |-> NoError, hosts |-> <<>>,
                      resolutions |-> 0, clients |-> 0], firstClient)
    IN  IF Len(docs) = 0
        THEN SelectorResult(ErrDocNotFound, aHosts, 1, 0, 0)
        ELSE IF built.err # NoError
        THEN SelectorResult(built.err, aHosts, 1,
                            built.resolutions, built.clients)
        ELSE SelectorResult(NoError, reconcileHosts(aHosts, built.hosts), 1,
                            built.resolutions, built.clients)

\* ByLabel without the check for an empty selection.
ByLabelSilentEmpty(label, aHosts, env, firstClient) ==
    LET docs == Select(env.bundle, [kind |-> "ByLabel", arg |-> label])
        built == BuildHosts(env, docs,
                     [err |-> NoError, hosts |-> <<>>,
                      resolutions |-> 0, clients |-> 0], firstClient)
    IN  IF built.err # NoError
        THEN SelectorResult(built.err, aHosts, 1,
                            built.resolutions, built.clients)
        ELSE SelectorResult(NoError, reconcileHosts(aHosts, built.hosts), 1,
                            built.resolutions, built.clients)

\* The closure returned by ByLabel(label), run on a manager whose host list
\* is aHosts.
ByLabel(label, aHosts, env, firstClient) ==
    LET docs == Select(env.bundle, [kind |-> "ByLabel", arg |-> label])
        built == BuildHosts(env, docs,
                     [err |-> NoError, hosts |-> <<>>,
                      resolutions |-> 0, clients |-> 0], firstClient)
    IN  IF Len(docs) = 0
        THEN SelectorResult(ErrDocNotFound, aHosts, 1, 0, 0)
        ELSE IF built.err # NoError
        THEN SelectorResult(built.err, aHosts, 1,
                            built.resolutions, built.clients)
        ELSE SelectorResult(NoError, reconcileHosts(aHosts, built.hosts), 1,
                            built.resolutions, built.clients)

\* ByName dropping the error of SelectOne: nothing is added, nothing fails.
ByNameSilent(name, aHosts, env, firstClient) ==
    LET one == SelectOne(env.bundle, [kind |-> "ByName", arg |-> name])
        r == newBaremetalHost(env, one.doc, firstClient)
    IN  IF one.err # NoError
        THEN SelectorResult(NoError, aHosts, 1, 0, 0)
        ELSE IF r.err # NoError
        THEN SelectorResult(r.err, aHosts, 1, r.resolutions, r.clients)
        ELSE SelectorResult(NoError, reconcileHosts(aHosts, <<r.host>>), 1,
                            r.resolutions, r.clients)

\* The closure returned by ByName(name).
ByName(name, aHosts, env, firstClient) ==
    LET one == SelectOne(env.bundle, [kind |-> "ByName", arg |-> name])
        r == newBaremetalHost(env, one.doc, firstClient)
    IN  IF one.err # NoError
        THEN SelectorResult(one.err, aHosts, 1, 0, 0)
        ELSE IF r.err # NoError
        THEN SelectorResult(r.err, aHosts, 1, r.resolutions, r.clients)
        ELSE SelectorResult(NoError, reconcileHosts(aHosts, <<r.host>>), 1,
                            r.resolutions, r.clients)

\* addHost(manager, *managementCfg, docBundle) for one element of hosts.
addHost(sel, aHosts, env, firstClient) ==
    IF sel.kind = "ByLabel"
    THEN ByLabel(sel.arg, aHosts, env, firstClient)
    ELSE ByName(sel.arg, aHosts, env, firstClient)

\* Every client a construction can build, none of them used yet.
ClientIds == 1..(NumDocs * MaxSelectors)

OperationsInit ==
    /\ contexts = [c \in ClientIds |-> "live"]
    /\ results = [c \in ClientIds |-> "none"]

\* No operation is being retried.
RetryIdle ==
    /\ mgmtCfg = [SystemActionRetries |-> 0, SystemRebootDelay |-> 0]
    /\ redfishClient = [retries |-> 0, delay |-> 0]
    /\ op = [pc |-> "none", failures |-> 0, attempts |-> 0, pauses |-> 0,
             slept |-> 0]

\* The two Repository objects of TestDownload.
Repos == {"repo1", "repo2"}

NoCall == [op |-> "none", repo |-> "none", fault |-> "none", wasOpen |-> FALSE,
           before |-> [exists |-> FALSE, refs |-> 0], calls |-> <<>>,
           err |-> NoError]

\* No repository is in use.
RepoIdle ==
    /\ storer = [exists |-> FALSE, refs |-> 0]
    /\ worktree = 0
    /\ remote = 0
    /\ driver = [r \in Repos |-> FALSE]
    /\ authFails = [r \in Repos |-> FALSE]
    /\ last = NoCall
    /\ prev = [op |-> "none", repo |-> "none", err |-> NoError]

\* No repository spec is being looked at.
ConfigIdle ==
    /\ spec = [URLString |-> "", Auth |-> <<>>, CheckoutOptions |-> <<>>]
    /\ call = [fn |-> "none", arg |-> <<>>, out |-> [err |-> NoError]]

\* No configuration was loaded.
ReconcileIdle ==
    /\ kubeConfig = [Clusters |-> <<>>, Contexts |-> <<>>, AuthInfos |-> {},
                     CurrentContext |-> ""]
    /\ config = [Clusters |-> <<>>, Contexts |-> <<>>, AuthInfos |-> {},
                 Manifests |-> <<>>, CurrentContext |-> ""]
    /\ rc = [pc |-> "none", updatedClusterNames |-> <<>>,
             persistIt |-> FALSE, persisted |-> FALSE]
    /\ got = [fn |-> "none", err |-> NoError, value |-> <<>>]
    /\ pull = [pc |-> "none", order |-> <<>>, calls |-> <<>>,
               storers |-> <<>>, drivers |-> <<>>, err |-> NoError]

BeyondIdle == RetryIdle /\ RepoIdle /\ ConfigIdle /\ ReconcileIdle

\* ------------------------------------------------------------------ actions
Init ==
    /\ OperationsInit
    /\ BeyondIdle
    /\ docBundle \in [DocIds -> Documents]
    /\ faultyDoc \in {0} \cup DocIds
    /\ mgmtType \in ManagementTypes
    /\ hosts \in SelectorLists
    /\ pc = "start"
    /\ next = 1
    /\ Hosts = <<>>
    /\ ret = [manager |-> FALSE, err |-> NoError]
    /\ validations = 0
    /\ phaseResolved = FALSE
    /\ bundleLoaded = FALSE
    /\ selections = 0
    /\ resolutions = 0
    /\ clients = 0
    /\ outcomes = <<>>

\* return nil, err
Fail(err) ==
    /\ pc' = "done"
    /\ ret' = [manager |-> FALSE, err |-> err]

\* cfg.CurrentContextManagementConfig()
ResolveConfig ==
    /\ pc = "start"
    /\ \E ok \in BOOLEAN :
          IF ok THEN pc' = "config" /\ UNCHANGED ret
          ELSE Fail(ErrConfig)
    /\ UNCHANGED <<outside, inputs, next, Hosts, effects, outcomes>>

\* NewManager calling Validate and dropping its result.
ValidateConfigIgnoreResult ==
    /\ pc = "config"
    /\ validations' = validations + 1
    /\ pc' = "validated"
    /\ UNCHANGED <<outside, inputs, next, Hosts, ret, phaseResolved, bundleLoaded,
                   selections, resolutions, clients, outcomes>>

\* NewManager without the call of Validate.
ValidateConfigSkipped ==
    /\ pc = "config"
    /\ pc' = "validated"
    /\ UNCHANGED <<outside, inputs, next, Hosts, ret, effects, outcomes>>

\* managementCfg.Validate()
ValidateConfig ==
    /\ pc = "config"
    /\ validations' = validations + 1
    /\ IF Validate(mgmtType) = NoError
       THEN pc' = "validated" /\ UNCHANGED ret
       ELSE Fail(Validate(mgmtType))
    /\ UNCHANGED <<outside, inputs, next, Hosts, phaseResolved, bundleLoaded,
                   selections, resolutions, clients, outcomes>>

\* phase.NewHelper, phaseClient.PhaseByID, phase.DocumentRoot
ResolvePhase ==
    /\ pc = "validated"
    /\ phaseResolved' = TRUE
    /\ \E ok \in BOOLEAN :
          IF ok THEN pc' = "phase" /\ UNCHANGED ret
          ELSE Fail(ErrPhase)
    /\ UNCHANGED <<outside, inputs, next, Hosts, validations, bundleLoaded,
                   selections, resolutions, clients, outcomes>>

\* document.NewBundleByPath, then the empty manager
LoadBundle ==
    /\ pc = "phase"
    /\ bundleLoaded' = TRUE
    /\ \E ok \in BOOLEAN :
          IF ok THEN pc' = "selecting" /\ UNCHANGED ret
          ELSE Fail(ErrBundle)
    /\ Hosts' = <<>>
    /\ UNCHANGED <<outside, inputs, next, validations, phaseResolved,
                   selections, resolutions, clients, outcomes>>

\* The loop over hosts going on after a selector returned an error.
RunSelectorContinue ==
    /\ pc = "selecting"
    /\ next <= Len(hosts)
    /\ \E kind \in FaultKinds :
          LET env == Env(mgmtType, docBundle, faultyDoc, kind)
              r == addHost(hosts[next], Hosts, env, clients + 1)
          IN  /\ Hosts' = r.Hosts
              /\ selections' = selections + r.selections
              /\ resolutions' = resolutions + r.resolutions
              /\ clients' = clients + r.clients
              /\ outcomes' = Append(outcomes, r.err)
              /\ next' = next + 1
              /\ UNCHANGED <<pc, ret>>
    /\ UNCHANGED <<outside, inputs, validations, phaseResolved, bundleLoaded>>

\* One iteration of the loop over hosts.
RunSelector ==
    /\ pc = "selecting"
    /\ next <= Len(hosts)
    /\ \E kind \in FaultKinds :
          LET env == Env(mgmtType, docBundle, faultyDoc, kind)
              r == addHost(hosts[next], Hosts, env, clients + 1)
          IN  /\ Hosts' = r.Hosts
              /\ selections' = selections + r.selections
              /\ resolutions' = resolutions + r.resolutions
              /\ clients' = clients + r.clients
              /\ outcomes' = Append(outcomes, r.err)
              /\ IF r.err # NoError
                 THEN Fail(r.err) /\ UNCHANGED next
                 ELSE next' = next + 1 /\ UNCHANGED <<pc, ret>>
    /\ UNCHANGED <<outside, inputs, validations, phaseResolved, bundleLoaded>>

\* NewManager without the check for an empty host list.
FinishNoCheck ==
    /\ pc = "selecting"
    /\ next > Len(hosts)
    /\ pc' = "done"
    /\ ret' = [manager |-> TRUE, err |-> NoError]
    /\ UNCHANGED <<outside, inputs, next, Hosts, effects, outcomes>>

\* NewManager reporting the empty host list with the document layer's error.
FinishDocNotFound ==
    /\ pc = "selecting"
    /\ next > Len(hosts)
    /\ pc' = "done"
    /\ ret' = [manager |-> TRUE,
               err |-> IF Len(Hosts) = 0 THEN ErrDocNotFound ELSE NoError]
    /\ UNCHANGED <<outside, inputs, next, Hosts, effects, outcomes>>

\* After the loop: the empty host list is an error, returned with the manager.
Finish ==
    /\ pc = "selecting"
    /\ next > Len(hosts)
    /\ pc' = "done"
    /\ ret' = [manager |-> TRUE,
               err |-> IF Len(Hosts) = 0 THEN ErrNoHostsFound ELSE NoError]
    /\ UNCHANGED <<outside, inputs, next, Hosts, effects, outcomes>>

Next ==
    \/ ResolveConfig
    \/ ValidateConfig
    \/ ResolvePhase
    \/ LoadBundle
    \/ RunSelector
    \/ Finish

Spec == Init /\ [][Next]_vars

\* ------------------------------------------------- operations on the hosts
\* The manager was returned without error: its hosts can be operated.
Ready == pc = "done" /\ ret = [manager |-> TRUE, err |-> NoError]

\* One call of a Client method of host k (RebootSystem, SystemPowerOn, ...)
\* with the host's Context: it succeeds, fails, or is cancelled; a cancelled
\* Context stays cancelled.
HostOperation(k) ==
    /\ Ready
    /\ k \in 1..Len(Hosts)
    /\ LET client == Hosts[k].Client
           ctx == Hosts[k].Context
       IN  IF contexts[ctx] = "cancelled"
           THEN /\ results' = [results EXCEPT ![client] = "cancelled"]
                /\ UNCHANGED contexts
           ELSE \E out \in {"ok", "failed", "cancelled"} :
                   /\ results' = [results EXCEPT ![client] = out]
                   /\ contexts' = IF out = "cancelled"
                                  THEN [contexts EXCEPT ![ctx] = "cancelled"]
                                  ELSE contexts
    /\ UNCHANGED <<beyond, inputs, pc, next, Hosts, ret, effects, outcomes>>

Operate == \E k \in 1..NumDocs : HostOperation(k)

NextOps == Next \/ Operate

SpecOps == Init /\ [][NextOps]_vars

\* No manager is being constructed.
ManagerIdle ==
    /\ docBundle = <<>>
    /\ faultyDoc = 0
    /\ mgmtType = RedfishClientType
    /\ hosts = <<>>
    /\ pc = "none"
    /\ next = 1
    /\ Hosts = <<>>
    /\ ret = [manager |-> FALSE, err |-> NoError]
    /\ validations = 0
    /\ phaseResolved = FALSE
    /\ bundleLoaded = FALSE
    /\ selections = 0
    /\ resolutions = 0
    /\ clients = 0
    /\ outcomes = <<>>
    /\ OperationsInit

construction == <<inputs, pc, next, Hosts, ret, effects, outcomes, operations>>

\* ------------------------------------------- retries of a stateful operation
\* The retry count and the delay newBaremetalHost hands to redfish.NewClient
\* with the delay and the retries exchanged.
NewClientArgsSwapped(cfg) ==
    [retries |-> cfg.SystemRebootDelay, delay |-> cfg.SystemActionRetries]

\* The retry count and the delay newBaremetalHost hands to redfish.NewClient.
NewClientArgs(cfg) ==
    [retries |-> cfg.SystemActionRetries, delay |-> cfg.SystemRebootDelay]

\* A host is about to be built for a configuration, and its action will fail
\* transiently a number of times before it can succeed.
RetryInit ==
    /\ mgmtCfg \in [SystemActionRetries : 0..MaxRetries,
                     SystemRebootDelay : 1..MaxDelay]
    /\ redfishClient = [retries |-> 0, delay |-> 0]
    /\ op \in [pc : {"new"}, failures : 0..MaxFailures, attempts : {0},
                pauses : {0}, slept : {0}]
    /\ ManagerIdle
    /\ RepoIdle
    /\ ConfigIdle
    /\ ReconcileIdle

\* newBaremetalHost constructs the vendor client.
BuildClient ==
    /\ op.pc = "new"
    /\ redfishClient' = NewClientArgs(mgmtCfg)
    /\ op' = [op EXCEPT !.pc = "attempt"]
    /\ UNCHANGED <<mgmtCfg, construction, repository, specs, reconciling>>

\* One attempt of the action: success, or a transient failure that is
\* retried while the retry count allows, and an error after that.
Attempt ==
    /\ op.pc = "attempt"
    /\ LET failed == op.attempts < op.failures
           n == op.attempts + 1
       IN  op' = [op EXCEPT !.attempts = n,
                            !.pc = IF ~failed THEN "succeeded"
                                   ELSE IF n <= redfishClient.retries THEN "pause"
                                   ELSE "exhausted"]
    /\ UNCHANGED <<mgmtCfg, redfishClient, construction, repository, specs, reconciling>>

\* The pause of the configured delay before the next attempt.
Pause ==
    /\ op.pc = "pause"
    /\ op' = [op EXCEPT !.pc = "attempt",
                        !.pauses = op.pauses + 1,
                        !.slept = op.slept + redfishClient.delay]
    /\ UNCHANGED <<mgmtCfg, redfishClient, construction, repository, specs, reconciling>>

NextRetry == BuildClient \/ Attempt \/ Pause

SpecRetry == RetryInit /\ [][NextRetry]_vars

\* ------------------------------------------------------ document repository
ErrNoOpenRepo == "ErrNoOpenRepo"
ErrRepositoryAlreadyExists == "git.ErrRepositoryAlreadyExists"
ErrRepositoryNotExists == "git.ErrRepositoryNotExists"
NoErrAlreadyUpToDate == "git.NoErrAlreadyUpToDate"
ErrAuth == "ErrAuth"
ErrOpen == "ErrOpen"
ErrInit == "ErrInit"
ErrClone == "ErrClone"
ErrFetch == "ErrFetch"
ErrWorktree == "ErrWorktree"
ErrCheckout == "ErrCheckout"

\* What can go wrong outside the program during one call, per method.
DownloadFaults == {"none", "init", "clone", "open", "worktree", "checkout"}
UpdateFaults == {"none", "fetch", "worktree", "checkout"}
CheckoutFaults == {"none", "worktree", "checkout"}
OpenFaults == {"none", "open"}
CloneFaults == {"none", "init", "clone"}

\* The driver call fn and its result, added to the calls of st.
Called(st, fn, err) ==
    [st EXCEPT !.calls = Append(@, [fn |-> fn, err |-> err]), !.err = err]

\* GitDriver.Open: git.Open on the storer, kept in the driver on success.
DriverOpen(st, fault) ==
    LET err == IF fault = "open" THEN ErrOpen
               ELSE IF ~st.storer.exists THEN ErrRepositoryNotExists
               ELSE NoError
    IN  Called([st EXCEPT !.open = IF err = NoError THEN TRUE ELSE @],
               "Open", err)

\* GitDriver.Clone: git.Clone refuses a storer that holds a repository,
\* initialises the storer, then fetches the remote into it.
DriverClone(st, fault) ==
    LET err == IF st.storer.exists THEN ErrRepositoryAlreadyExists
               ELSE IF fault = "init" THEN ErrInit
               ELSE IF fault = "clone" THEN ErrClone
               ELSE NoError
    IN  Called([st EXCEPT
                  !.storer = IF err = NoError
                             THEN [exists |-> TRUE, refs |-> st.remote]
                             ELSE IF err = ErrClone
                             THEN [exists |-> TRUE, refs |-> 0]
                             ELSE @,
                  !.open = IF err = NoError THEN TRUE ELSE @],
               "Clone", err)

\* Driver.Fetch: brings the refs of the storer to the remote's revision.
DriverFetch(st, fault) ==
    LET err == IF fault = "fetch" THEN ErrFetch
               ELSE IF st.storer.refs = st.remote THEN NoErrAlreadyUpToDate
               ELSE NoError
    IN  Called([st EXCEPT !.storer.refs = IF err = NoError THEN st.remote
                                          ELSE @],
               "Fetch", err)

\* GitDriver.Close.
DriverClose(st) == [st EXCEPT !.open = FALSE]

\* Repository.Checkout.
Checkout(st, fault) ==
    IF ~st.open THEN [st EXCEPT !.err = ErrNoOpenRepo]
    ELSE IF fault = "worktree" THEN Called(st, "Worktree", ErrWorktree)
    ELSE LET tree == Called(st, "Worktree", NoError)
             err == IF fault = "checkout" \/ st.storer.refs = 0
                    THEN ErrCheckout ELSE NoError
         IN  Called([tree EXCEPT !.worktree = IF err = NoError
                                              THEN st.storer.refs ELSE @],
                    "Checkout", err)

\* Repository.Update without the test that the driver is open.
UpdateUnguarded(st, fault, noAuth) ==
    IF noAuth THEN [st EXCEPT !.err = ErrAuth]
    ELSE LET f == DriverFetch(st, fault)
         IN  IF f.err \notin {NoError, NoErrAlreadyUpToDate} THEN f
             ELSE Checkout(f, fault)

\* Repository.Update.
Update(st, fault, noAuth) ==
    IF ~st.open THEN [st EXCEPT !.err = ErrNoOpenRepo]
    ELSE IF noAuth THEN [st EXCEPT !.err = ErrAuth]
    ELSE LET f == DriverFetch(st, fault)
         IN  IF f.err \notin {NoError, NoErrAlreadyUpToDate} THEN f
             ELSE Checkout(f, fault)

\* Repository.Open.
Open(st, fault) == DriverOpen(st, fault)

\* Repository.Clone.
Clone(st, fault, noAuth) ==
    IF noAuth THEN [st EXCEPT !.err = ErrAuth] ELSE DriverClone(st, fault)

\* Repository.Download giving up when the clone finds a repository.
DownloadCloneOnly(st, fault, noAuth) ==
    IF ~st.open
    THEN LET c == Clone(st, fault, noAuth)
         IN  IF c.err # NoError THEN c ELSE Checkout(c, fault)
    ELSE Checkout(st, fault)

\* Repository.Download fetching after it opened a repository it found.
DownloadFetching(st, fault, noAuth) ==
    IF ~st.open
    THEN LET c == Clone(st, fault, noAuth)
         IN  IF c.err = ErrRepositoryAlreadyExists
             THEN LET o == Open(c, fault)
                  IN  IF o.err # NoError THEN [o EXCEPT !.err = c.err]
                      ELSE Checkout(DriverFetch(o, fault), fault)
             ELSE IF c.err # NoError THEN c
             ELSE Checkout(c, fault)
    ELSE Checkout(st, fault)

\* Repository.Download.
Download(st, fault, noAuth) ==
    IF ~st.open
    THEN LET c == Clone(st, fault, noAuth)
         IN  IF c.err = ErrRepositoryAlreadyExists
             THEN LET o == Open(c, fault)
                  IN  IF o.err # NoError THEN [o EXCEPT !.err = c.err]
                      ELSE Checkout(o, fault)
             ELSE IF c.err # NoError THEN c
             ELSE Checkout(c, fault)
    ELSE Checkout(st, fault)

\* Two Repository objects over one empty filesystem and storer.
RepoInit ==
    /\ storer = [exists |-> FALSE, refs |-> 0]
    /\ worktree = 0
    /\ remote \in 1..MaxRev
    /\ driver = [r \in Repos |-> FALSE]
    /\ authFails \in [Repos -> BOOLEAN]
    /\ last = NoCall
    /\ prev = [op |-> "none", repo |-> "none", err |-> NoError]
    /\ ManagerIdle
    /\ RetryIdle
    /\ ConfigIdle
    /\ ReconcileIdle

\* What a method of Repository object r starts from.
Start(r) ==
    [storer |-> storer, worktree |-> worktree, remote |-> remote,
     open |-> driver[r], calls |-> <<>>, err |-> NoError]

\* A method of Repository object r returns, having brought things to st.
Return(name, r, fault, st) ==
    /\ storer' = st.storer
    /\ worktree' = st.worktree
    /\ driver' = [driver EXCEPT ![r] = st.open]
    /\ last' = [op |-> name, repo |-> r, fault |-> fault,
                wasOpen |-> driver[r], before |-> storer,
                calls |-> st.calls, err |-> st.err]
    /\ prev' = [op |-> last.op, repo |-> last.repo, err |-> last.err]
    /\ UNCHANGED <<remote, authFails, construction, retrying, specs, reconciling>>

RepoDownload(r) ==
    \E fault \in DownloadFaults :
        Return("Download", r, fault, Download(Start(r), fault, authFails[r]))

RepoUpdate(r) ==
    \E fault \in UpdateFaults :
        Return("Update", r, fault, Update(Start(r), fault, authFails[r]))

RepoCheckout(r) ==
    \E fault \in CheckoutFaults :
        Return("Checkout", r, fault, Checkout(Start(r), fault))

RepoOpen(r) ==
    \E fault \in OpenFaults :
        Return("Open", r, fault, Open(Start(r), fault))

RepoClone(r) ==
    \E fault \in CloneFaults :
        Return("Clone", r, fault, Clone(Start(r), fault, authFails[r]))

RepoClose(r) == Return("Close", r, "none", DriverClose(Start(r)))

\* Somebody pushes a new revision to the remote.
Push ==
    /\ remote < MaxRev
    /\ remote' = remote + 1
    /\ UNCHANGED <<storer, worktree, driver, authFails, last, prev,
                   construction, retrying, specs, reconciling>>

NextRepo ==
    \/ \E r \in Repos : RepoDownload(r)
    \/ \E r \in Repos : RepoUpdate(r)
    \/ \E r \in Repos : RepoCheckout(r)
    \/ \E r \in Repos : RepoOpen(r)
    \/ \E r \in Repos : RepoClone(r)
    \/ \E r \in Repos : RepoClose(r)
    \/ Push

SpecRepo == RepoInit /\ [][NextRepo]_vars

\* ------------------------------------------------------- repository specs
SSHAuth == "ssh-key"
SSHPass == "ssh-pass"
HTTPBasic == "http-basic"
AllowedAuthTypes == {SSHAuth, SSHPass, HTTPBasic}

ErrRepoSpecRequiresURL == "ErrRepoSpecRequiresURL"
ErrAuthTypeNotSupported == "ErrAuthTypeNotSupported"
ErrMutuallyExclusiveAuthSSHKey == "ErrMutuallyExclusiveAuthSSHKey"
ErrMutuallyExclusiveAuthHTTPBasic == "ErrMutuallyExclusiveAuthHTTPBasic"
ErrMutuallyExclusiveAuthSSHPass == "ErrMutuallyExclusiveAuthSSHPass"
ErrMutuallyExclusiveCheckout == "ErrMutuallyExclusiveCheckout"
ErrRemoteRefNotImplemented == "ErrRemoteRefNotImplemented"
ErrTypeNotImplemented == "ErrTypeNotImplemented"
ErrKeyFile == "ErrKeyFile"
ErrStorer == "ErrStorer"

\* A field is empty or set.
Strs == {"", "v"}

\* Every RepoAuth, RepoCheckout and Repository over these values; a pointer
\* is a sequence, empty for nil.
RepoAuths ==
    [Type : AllowedAuthTypes \cup {"bogus"}, KeyPassword : Strs,
     KeyPath : Strs, HTTPPassword : Strs, SSHPassword : Strs, Username : Strs]
RepoCheckouts == [CommitHash : Strs, Branch : Strs, Tag : Strs, RemoteRef : Strs]
Ptr(S) == {<<>>} \cup {<<x>> : x \in S}
Repositories ==
    [URLString : Strs, Auth : Ptr(RepoAuths), CheckoutOptions : Ptr(RepoCheckouts)]

\* RepoCheckout.Validate.
RepoCheckoutValidate(c) ==
    LET r == SelectSeq(<<c.CommitHash, c.Branch, c.Tag, c.RemoteRef>>,
                       LAMBDA val : val # "")
    IN  IF Len(r) > 1 THEN ErrMutuallyExclusiveCheckout
        ELSE IF c.RemoteRef # "" THEN ErrRemoteRefNotImplemented
        ELSE NoError

\* RepoAuth.Validate letting an ssh-pass block carry an http password.
RepoAuthValidateLax(auth) ==
    IF auth.Type \notin AllowedAuthTypes THEN ErrAuthTypeNotSupported
    ELSE IF /\ auth.Type = SSHAuth
            /\ (auth.HTTPPassword # "" \/ auth.SSHPassword # "")
    THEN ErrMutuallyExclusiveAuthSSHKey
    ELSE IF /\ auth.Type = HTTPBasic
            /\ (auth.SSHPassword # "" \/ auth.KeyPath # ""
                  \/ auth.KeyPassword # "")
    THEN ErrMutuallyExclusiveAuthHTTPBasic
    ELSE IF /\ auth.Type = SSHPass
            /\ (auth.KeyPath # "" \/ auth.KeyPassword # "")
    THEN ErrMutuallyExclusiveAuthSSHPass
    ELSE NoError

\* RepoAuth.Validate.
RepoAuthValidate(auth) ==
    IF auth.Type \notin AllowedAuthTypes THEN ErrAuthTypeNotSupported
    ELSE IF /\ auth.Type = SSHAuth
            /\ (auth.HTTPPassword # "" \/ auth.SSHPassword # "")
    THEN ErrMutuallyExclusiveAuthSSHKey
    ELSE IF /\ auth.Type = HTTPBasic
            /\ (auth.SSHPassword # "" \/ auth.KeyPath # ""
                  \/ auth.KeyPassword # "")
    THEN ErrMutuallyExclusiveAuthHTTPBasic
    ELSE IF /\ auth.Type = SSHPass
            /\ (auth.KeyPath # "" \/ auth.KeyPassword # ""
                  \/ auth.HTTPPassword # "")
    THEN ErrMutuallyExclusiveAuthSSHPass
    ELSE NoError

\* Repository.Validate.
RepositoryValidate(s) ==
    IF s.URLString = "" THEN ErrRepoSpecRequiresURL
    ELSE IF s.Auth # <<>> /\ RepoAuthValidate(s.Auth[1]) # NoError
    THEN RepoAuthValidate(s.Auth[1])
    ELSE IF /\ s.CheckoutOptions # <<>>
            /\ RepoCheckoutValidate(s.CheckoutOptions[1]) # NoError
    THEN RepoCheckoutValidate(s.CheckoutOptions[1])
    ELSE NoError

\* NewRepositoryFromSpec: the spec as it leaves it, whether a repository is
\* returned, and the error.
NewRepositoryFromSpec(s, fsFails) ==
    LET err == RepositoryValidate(s)
        d == [s EXCEPT !.CheckoutOptions =
                 IF @ = <<>>
                 THEN <<[CommitHash |-> "", Branch |-> "master", Tag |-> "",
                         RemoteRef |-> ""]>>
                 ELSE @]
    IN  IF err # NoError THEN [spec |-> s, repo |-> FALSE, err |-> err]
        ELSE IF fsFails THEN [spec |-> d, repo |-> FALSE, err |-> ErrStorer]
        ELSE [spec |-> d, repo |-> TRUE, err |-> NoError]

\* Repository.ToAuth: the method returned (empty for nil) and the error.
ToAuth(repo, keyFails) ==
    IF repo.Auth = <<>> THEN [method |-> <<>>, err |-> NoError]
    ELSE LET auth == repo.Auth[1]
         IN  CASE auth.Type = SSHAuth ->
                    IF keyFails THEN [method |-> <<>>, err |-> ErrKeyFile]
                    ELSE [method |-> <<[kind |-> "ssh.PublicKeys",
                                        User |-> auth.Username,
                                        Password |-> auth.KeyPassword]>>,
                          err |-> NoError]
               [] auth.Type = SSHPass ->
                    [method |-> <<[kind |-> "ssh.Password",
                                   User |-> auth.Username,
                                   Password |-> auth.HTTPPassword]>>,
                     err |-> NoError]
               [] auth.Type = HTTPBasic ->
                    [method |-> <<[kind |-> "http.BasicAuth",
                                   User |-> auth.Username,
                                   Password |-> auth.HTTPPassword]>>,
                     err |-> NoError]
               [] OTHER -> [method |-> <<>>, err |-> ErrTypeNotImplemented]

\* RepoCheckout.Equal; s is a pointer.
RepoCheckoutEqual(c, s) ==
    IF s = <<>> THEN FALSE
    ELSE /\ c.CommitHash = s[1].CommitHash
         /\ c.Branch = s[1].Branch
         /\ c.Tag = s[1].Tag
         /\ c.RemoteRef = s[1].RemoteRef

\* RepoAuth.Equal; s is a pointer.
RepoAuthEqual(auth, s) ==
    IF s = <<>> THEN FALSE
    ELSE /\ auth.Type = s[1].Type
         /\ auth.KeyPassword = s[1].KeyPassword
         /\ auth.KeyPath = s[1].KeyPath
         /\ auth.SSHPassword = s[1].SSHPassword
         /\ auth.Username = s[1].Username

\* Repository.Equal; s is a pointer, and reflect.DeepEqual compares what the
\* two pointers point to, field by field.
RepositoryEqual(repo, s) ==
    IF s = <<>> THEN FALSE
    ELSE /\ repo.URLString = s[1].URLString
         /\ s[1].Auth = repo.Auth
         /\ s[1].CheckoutOptions = repo.CheckoutOptions

\* The other value of a field.
Flip(val) == IF val = "" THEN "v" ELSE ""

\* What a block or a spec is compared with: nil, itself, and itself with
\* one field or one block changed.
OtherAuths(a) ==
    IF a = <<>> THEN {<<[Type |-> SSHAuth, KeyPassword |-> "", KeyPath |-> "",
                         HTTPPassword |-> "", SSHPassword |-> "",
                         Username |-> ""]>>}
    ELSE {<<>>}
         \cup {<<[a[1] EXCEPT !.Type = t]>> : t \in AllowedAuthTypes}
         \cup {<<[a[1] EXCEPT ![f] = Flip(@)]>> :
                 f \in {"KeyPassword", "KeyPath", "HTTPPassword",
                        "SSHPassword", "Username"}}

OtherCheckouts(c) ==
    IF c = <<>> THEN {<<[CommitHash |-> "", Branch |-> "", Tag |-> "",
                         RemoteRef |-> ""]>>}
    ELSE {<<>>}
         \cup {<<[c[1] EXCEPT ![f] = Flip(@)]>> :
                 f \in {"CommitHash", "Branch", "Tag", "RemoteRef"}}

Others(x) ==
    {<<>>, <<x>>, <<[x EXCEPT !.URLString = Flip(@)]>>}
    \cup {<<[x EXCEPT !.Auth = a]>> : a \in OtherAuths(x.Auth)}
    \cup {<<[x EXCEPT !.CheckoutOptions = c]>> :
            c \in OtherCheckouts(x.CheckoutOptions)}

\* Some repository spec, and no function applied to it yet.
ConfigInit ==
    /\ spec \in Repositories
    /\ call = [fn |-> "none", arg |-> <<>>, out |-> [err |-> NoError]]
    /\ ManagerIdle
    /\ RetryIdle
    /\ RepoIdle
    /\ ReconcileIdle

\* One function is applied to the spec and returns.
Returned(fn, arg, out) ==
    /\ call.fn = "none"
    /\ call' = [fn |-> fn, arg |-> arg, out |-> out]
    /\ UNCHANGED <<construction, retrying, repository, reconciling>>

CallValidate ==
    /\ Returned("Validate", <<>>, [err |-> RepositoryValidate(spec)])
    /\ UNCHANGED spec

CallNewRepositoryFromSpec ==
    \E fsFails \in BOOLEAN :
        LET new == NewRepositoryFromSpec(spec, fsFails)
        IN  /\ Returned("NewRepositoryFromSpec", <<spec>>,
                        [repo |-> new.repo, err |-> new.err])
            /\ spec' = new.spec

CallToAuth ==
    \E keyFails \in BOOLEAN :
        /\ Returned("ToAuth", <<>>, ToAuth(spec, keyFails))
        /\ UNCHANGED spec

CallEqual ==
    \E s \in Others(spec) :
        /\ Returned("Equal", s, [ok |-> RepositoryEqual(spec, s)])
        /\ UNCHANGED spec

CallAuthEqual ==
    /\ spec.Auth # <<>>
    /\ \E s \in OtherAuths(spec.Auth) \cup {spec.Auth} :
          Returned("RepoAuth.Equal", s, [ok |-> RepoAuthEqual(spec.Auth[1], s)])
    /\ UNCHANGED spec

CallCheckoutEqual ==
    /\ spec.CheckoutOptions # <<>>
    /\ \E s \in OtherCheckouts(spec.CheckoutOptions) \cup {spec.CheckoutOptions} :
          Returned("RepoCheckout.Equal", s,
                   [ok |-> RepoCheckoutEqual(spec.CheckoutOptions[1], s)])
    /\ UNCHANGED spec

NextConfig ==
    \/ CallValidate
    \/ CallNewRepositoryFromSpec
    \/ CallToAuth
    \/ CallEqual
    \/ CallAuthEqual
    \/ CallCheckoutEqual

SpecConfig == ConfigInit /\ [][NextConfig]_vars

\* ------------------------------------------- reconciling with the kubeconfig
Ephemeral == "ephemeral"
Target == "target"
AirshipClusterDefaultType == Target

\* A name is kept as the parts strings.Split cuts it into at the separator,
\* and strings.Join puts parts together again: <<"a", "target">> is a_target.
ClusterKeys ==
    {<<"a">>, <<"a", Target>>, <<"a", "bogus">>, <<"a", "b", Target>>, <<"">>}

\* A Go map is a function; these are m[k] = v and delete(m, k).
MapPut(m, k, v) == [x \in DOMAIN m \cup {k} |-> IF x = k THEN v ELSE m[x]]
MapDel(m, k) == [x \in DOMAIN m \ {k} |-> m[x]]

\* The orders in which a range over a map with these keys can come.
RECURSIVE Ranges(_)
Ranges(S) ==
    IF S = {} THEN {<<>>}
    ELSE UNION {{<<x>> \o p : p \in Ranges(S \ {x})} : x \in S}

ValidClusterType(ctype) == ctype = Ephemeral \/ ctype = Target

NewClusterComplexName == [clusterName |-> "", clusterType |-> ""]

\* ClusterComplexName.FromName
FromName(c, clusterName) ==
    IF clusterName # <<"">>
    THEN [clusterName |-> clusterName[1],
          clusterType |-> IF Len(clusterName) = 2 THEN clusterName[2]
                          ELSE c.clusterType]
    ELSE c

\* ClusterComplexName.validName
validName(c) == c.clusterName # "" /\ ValidClusterType(c.clusterType)

\* ClusterComplexName.Name
Name(c) == <<c.clusterName, c.clusterType>>

\* One turn of the loop of reconcileClusters, for the kubeconfig cluster
\* clusterName; st holds the two cluster maps, the renamings and persistIt.
reconcileCluster(st, clusterName) ==
    LET cluster == st.kube[clusterName]
        parsed == FromName(NewClusterComplexName, clusterName)
        renamed == ~validName(parsed)
        clusterComplexName ==
            IF renamed
            THEN [parsed EXCEPT !.clusterType = AirshipClusterDefaultType]
            ELSE parsed
        key == Name(clusterComplexName)
    IN  [kube |-> IF renamed
                  THEN MapDel(MapPut(st.kube, key, cluster), clusterName)
                  ELSE st.kube,
         Clusters |-> MapPut(st.Clusters,
                             <<clusterComplexName.clusterName,
                               clusterComplexName.clusterType>>,
                             [NameInKubeconf |-> key, kCluster |-> cluster]),
         updated |-> IF renamed THEN MapPut(st.updated, clusterName, key)
                     ELSE st.updated,
         persistIt |-> st.persistIt \/ renamed]

\* The range over the kubeconfig clusters: work is what the range still
\* produces; an entry created during the range is produced or skipped.
RECURSIVE reconcileClustersRange(_, _, _)
reconcileClustersRange(work, st, produceNew) ==
    IF work = <<>> THEN st
    ELSE IF Head(work) \notin DOMAIN st.kube
    THEN reconcileClustersRange(Tail(work), st, produceNew)
    ELSE LET after == reconcileCluster(st, Head(work))
             created == DOMAIN after.kube \ DOMAIN st.kube
         IN  reconcileClustersRange(
                 Tail(work) \o (IF produceNew /\ created # {}
                                THEN <<CHOOSE k \in created : TRUE>>
                                ELSE <<>>),
                 after, produceNew)

\* rmConfigClusterStragglers
rmConfigClusterStragglers(st) ==
    LET stragglers == {s \in DOMAIN st.Clusters :
                         st.Clusters[s].NameInKubeconf \notin DOMAIN st.kube}
    IN  [st EXCEPT !.Clusters = [s \in DOMAIN @ \ stragglers |-> @[s]],
                   !.persistIt = @ \/ stragglers # {}]

\* reconcileClusters
reconcileClusters(kube, Clusters, order, produceNew) ==
    rmConfigClusterStragglers(
        reconcileClustersRange(order,
                               [kube |-> kube, Clusters |-> Clusters,
                                updated |-> <<>>, persistIt |-> FALSE],
                               produceNew))

\* reconcileContexts: the kubeconfig contexts and the airship contexts after.
reconcileContexts(kContexts, Contexts, Clusters, updatedClusterNames) ==
    LET cluster(key) ==
            IF kContexts[key].Cluster \in DOMAIN updatedClusterNames
            THEN updatedClusterNames[kContexts[key].Cluster]
            ELSE kContexts[key].Cluster
        orphan(key) ==
            LET clusterName == FromName(NewClusterComplexName, cluster(key))
            IN  /\ validName(clusterName)
                /\ \A s \in DOMAIN Clusters : s[1] # clusterName.clusterName
        kept == {key \in DOMAIN kContexts : ~orphan(key)}
    IN  [kube |-> [key \in kept |-> [Cluster |-> cluster(key)]],
         Contexts |-> [key \in kept |->
                          [NameInKubeconf |-> cluster(key),
                           Manifest |-> IF key \in DOMAIN Contexts
                                        THEN Contexts[key].Manifest ELSE ""]]]

\* reconcileAuthInfos: the airship users after.
reconcileAuthInfos(kAuthInfos, AuthInfos) == kAuthInfos

\* reconcileCurrentContext never touching the kubeconfig.
reconcileCurrentContextOneWay(Contexts, current, kCurrent) ==
    IF current \notin DOMAIN Contexts /\ kCurrent \in DOMAIN Contexts
    THEN [CurrentContext |-> kCurrent, kube |-> kCurrent]
    ELSE [CurrentContext |-> current, kube |-> kCurrent]

\* reconcileCurrentContext: the two current contexts after.
reconcileCurrentContext(Contexts, current, kCurrent) ==
    IF current \notin DOMAIN Contexts
    THEN IF kCurrent \in DOMAIN Contexts
         THEN [CurrentContext |-> kCurrent, kube |-> kCurrent]
         ELSE [CurrentContext |-> current, kube |-> kCurrent]
    ELSE [CurrentContext |-> current, kube |-> current]

\* The kubeconfig clusters a file can hold: each cluster is told from the
\* others by the name it was loaded under.
KubeClusterMaps == UNION {{[k \in S |-> k]} : S \in SUBSET ClusterKeys}

\* The cluster entries an airship config file can hold, by name and type.
ClusterSlots == {<<"a", Target>>, <<"a", Ephemeral>>, <<"b", Target>>}
ConfigClusterMaps ==
    UNION {[S -> [NameInKubeconf : {<<"a", Target>>, <<"a">>},
                  kCluster : {<<>>}]] : S \in SUBSET ClusterSlots}

ContextKeys == {"c1", "c2"}
KubeContextMaps ==
    UNION {[S -> [Cluster : {<<"a">>, <<"a", Target>>, <<"z", Target>>}]] :
             S \in SUBSET ContextKeys}
ConfigContextMaps ==
    UNION {[S -> [NameInKubeconf : {<<"a", Target>>}, Manifest : {""}]] :
             S \in SUBSET (ContextKeys \cup {"c3"})}

\* The two files were loaded: clusters of every kind, one context.
ClustersInit ==
    /\ kubeConfig \in [Clusters : KubeClusterMaps,
                       Contexts : {[key \in {"c1"} |-> [Cluster |-> <<"a">>]]},
                       AuthInfos : {{"u1"}},
                       CurrentContext : {"c1"}]
    /\ config \in [Clusters : ConfigClusterMaps,
                   Contexts : {<<>>},
                   AuthInfos : {{}},
                   Manifests : {<<>>},
                   CurrentContext : {""}]
    /\ rc = [pc |-> "loaded", updatedClusterNames |-> <<>>,
             persistIt |-> FALSE, persisted |-> FALSE]
    /\ got = [fn |-> "none", err |-> NoError, value |-> <<>>]
    /\ pull = [pc |-> "none", order |-> <<>>, calls |-> <<>>,
               storers |-> <<>>, drivers |-> <<>>, err |-> NoError]
    /\ ManagerIdle
    /\ RetryIdle
    /\ RepoIdle
    /\ ConfigIdle

\* The two files were loaded: contexts of every kind, few clusters.
ContextsInit ==
    /\ kubeConfig \in [Clusters : {[k \in S |-> k] :
                                     S \in {{}, {<<"a">>}, {<<"a", Target>>}}},
                       Contexts : KubeContextMaps,
                       AuthInfos : {{"u1"}},
                       CurrentContext : {"", "c1", "c2"}]
    /\ config \in [Clusters : {<<>>},
                   Contexts : ConfigContextMaps,
                   AuthInfos : {{"u2"}},
                   Manifests : {<<>>},
                   CurrentContext : {"", "c1", "c3"}]
    /\ rc = [pc |-> "loaded", updatedClusterNames |-> <<>>,
             persistIt |-> FALSE, persisted |-> FALSE]
    /\ got = [fn |-> "none", err |-> NoError, value |-> <<>>]
    /\ pull = [pc |-> "none", order |-> <<>>, calls |-> <<>>,
               storers |-> <<>>, drivers |-> <<>>, err |-> NoError]
    /\ ManagerIdle
    /\ RetryIdle
    /\ RepoIdle
    /\ ConfigIdle

elsewhere == <<construction, retrying, repository, specs, got, pull>>

\* reconcileConfig, first call: reconcileClusters
ReconcileClusters ==
    /\ rc.pc = "loaded"
    /\ \E order \in Ranges(DOMAIN kubeConfig.Clusters), produceNew \in BOOLEAN :
          LET r == reconcileClusters(kubeConfig.Clusters, config.Clusters,
                                     order, produceNew)
          IN  /\ kubeConfig' = [kubeConfig EXCEPT !.Clusters = r.kube]
              /\ config' = [config EXCEPT !.Clusters = r.Clusters]
              /\ rc' = [rc EXCEPT !.pc = "clusters",
                                  !.updatedClusterNames = r.updated,
                                  !.persistIt = r.persistIt]
    /\ UNCHANGED elsewhere

\* reconcileConfig, second call: reconcileContexts
ReconcileContexts ==
    /\ rc.pc = "clusters"
    /\ LET r == reconcileContexts(kubeConfig.Contexts, config.Contexts,
                                  config.Clusters, rc.updatedClusterNames)
       IN  /\ kubeConfig' = [kubeConfig EXCEPT !.Contexts = r.kube]
           /\ config' = [config EXCEPT !.Contexts = r.Contexts]
    /\ rc' = [rc EXCEPT !.pc = "contexts"]
    /\ UNCHANGED elsewhere

\* reconcileConfig, third call: reconcileAuthInfos
ReconcileAuthInfos ==
    /\ rc.pc = "contexts"
    /\ config' = [config EXCEPT
                    !.AuthInfos = reconcileAuthInfos(kubeConfig.AuthInfos, @)]
    /\ rc' = [rc EXCEPT !.pc = "authinfos"]
    /\ UNCHANGED <<kubeConfig, elsewhere>>

\* reconcileConfig, last call: reconcileCurrentContext, and PersistConfig
\* when something was changed.
ReconcileCurrentContext ==
    /\ rc.pc = "authinfos"
    /\ LET r == reconcileCurrentContext(config.Contexts, config.CurrentContext,
                                        kubeConfig.CurrentContext)
       IN  /\ config' = [config EXCEPT !.CurrentContext = r.CurrentContext]
           /\ kubeConfig' = [kubeConfig EXCEPT !.CurrentContext = r.kube]
    /\ rc' = [rc EXCEPT !.pc = "reconciled", !.persisted = rc.persistIt]
    /\ UNCHANGED elsewhere

NextReconcile ==
    \/ ReconcileClusters
    \/ ReconcileContexts
    \/ ReconcileAuthInfos
    \/ ReconcileCurrentContext

SpecClusters == ClustersInit /\ [][NextReconcile]_vars

SpecContexts == ContextsInit /\ [][NextReconcile]_vars

\* ------------------------------------------------------------ document pull
ErrNoCluster == "Config: At least one cluster needs to be defined"
ErrNoAuthInfo ==
    "Config: At least one Authentication Information (User) needs to be defined"
ErrNoContext == "Config: At least one Context needs to be defined"
ErrNoCurrentContext ==
    "Config: Current Context is not defined, or it doesnt identify a defined Context"
ErrMissingConfig == "ErrMissingConfig"

\* A pointer result: the value (empty for nil) and the error.
Result(value, err) == [value |-> value, err |-> err, panic |-> FALSE]
Panicked == [value |-> <<>>, err |-> NoError, panic |-> TRUE]

\* Config.EnsureComplete
EnsureComplete(c) ==
    IF DOMAIN c.Clusters = {} THEN ErrNoCluster
    ELSE IF c.AuthInfos = {} THEN ErrNoAuthInfo
    ELSE IF DOMAIN c.Contexts = {} THEN ErrNoContext
    ELSE IF c.CurrentContext = "" \/ c.CurrentContext \notin DOMAIN c.Contexts
    THEN ErrNoCurrentContext
    ELSE NoError

\* Config.GetContext
GetContext(c, cName) ==
    IF cName \notin DOMAIN c.Contexts THEN Result(<<>>, ErrMissingConfig)
    ELSE Result(<<c.Contexts[cName]>>, NoError)

\* Config.GetCurrentContext
GetCurrentContext(c) ==
    IF EnsureComplete(c) # NoError THEN Result(<<>>, EnsureComplete(c))
    ELSE GetContext(c, c.CurrentContext)

\* Config.CurrentContextCluster; kContexts holds what KubeContext() points
\* to. c.Clusters is looked up with the whole kubeconfig name of the cluster,
\* and the lookup only finds a cluster whose name is that string.
CurrentContextCluster(c, kContexts) ==
    LET currentContext == GetCurrentContext(c)
    IN  IF currentContext.err # NoError
        THEN Result(<<>>, currentContext.err)
        ELSE LET name == kContexts[c.CurrentContext].Cluster
                 ctype == FromName(NewClusterComplexName,
                                   currentContext.value[1].NameInKubeconf)
                              .clusterType
             IN  IF Len(name) # 1 \/ \A s \in DOMAIN c.Clusters : s[1] # name[1]
                 THEN Panicked
                 ELSE IF <<name[1], ctype>> \in DOMAIN c.Clusters
                 THEN Result(<<c.Clusters[<<name[1], ctype>>]>>, NoError)
                 ELSE Result(<<>>, NoError)

\* Config.CurrentContextAuthInfo
CurrentContextAuthInfo(c, kContexts) ==
    LET currentContext == GetCurrentContext(c)
    IN  IF currentContext.err # NoError
        THEN Result(<<>>, currentContext.err)
        ELSE IF kContexts[c.CurrentContext].AuthInfo \in c.AuthInfos
        THEN Result(<<kContexts[c.CurrentContext].AuthInfo>>, NoError)
        ELSE Result(<<>>, NoError)

\* Config.CurrentContextManifest
CurrentContextManifest(c) ==
    LET currentContext == GetCurrentContext(c)
    IN  IF currentContext.err # NoError
        THEN Result(<<>>, currentContext.err)
        ELSE IF currentContext.value[1].Manifest \in DOMAIN c.Manifests
        THEN Result(<<c.Manifests[currentContext.value[1].Manifest]>>,
                      NoError)
        ELSE Result(<<>>, NoError)

\* The repository specs a manifest can name: a good one, one without URL,
\* one with two revisions to check out.
PullSpecs ==
    {[URLString |-> "v", Auth |-> <<>>, CheckoutOptions |-> <<>>],
     [URLString |-> "", Auth |-> <<>>, CheckoutOptions |-> <<>>],
     [URLString |-> "v", Auth |-> <<>>,
      CheckoutOptions |-> <<[CommitHash |-> "v", Branch |-> "v", Tag |-> "",
                             RemoteRef |-> ""]>>]}

\* The manifests a config file can hold.
ManifestMaps ==
    {<<>>} \cup
    {[m \in {"m1"} |-> [Repositories |-> repos, TargetPath |-> "v"]] :
        repos \in UNION {[S -> PullSpecs] : S \in SUBSET Repos}}

\* The contexts a reconciled config can hold, for both files.
PullContexts ==
    {[kube |-> <<>>, Contexts |-> <<>>]} \cup
    {[kube |-> [key \in {"c1"} |->
                    [Cluster |-> cluster, AuthInfo |-> "u1"]],
      Contexts |-> [key \in {"c1"} |->
                       [NameInKubeconf |-> <<"a", Target>>,
                        Manifest |-> manifest]]] :
        cluster \in {<<"a">>, <<"a", Target>>},
        manifest \in {"", "m1", "m2"}}

\* A configuration was loaded and reconciled; nothing was pulled yet.
PullInit ==
    /\ \E contexts0 \in PullContexts,
          clusters \in {{}, {<<"a", Target>>}},
          current \in {"", "c1", "c2"} :
          /\ kubeConfig \in [Clusters : {[k \in clusters |-> k]},
                             Contexts : {contexts0.kube},
                             AuthInfos : {{"u1"}},
                             CurrentContext : {current}]
          /\ config \in [Clusters : {[k \in clusters |->
                                        [NameInKubeconf |-> k, kCluster |-> k]]},
                         Contexts : {contexts0.Contexts},
                         AuthInfos : {{}, {"u1"}},
                         Manifests : ManifestMaps,
                         CurrentContext : {current}]
    /\ rc = [pc |-> "reconciled", updatedClusterNames |-> <<>>,
             persistIt |-> FALSE, persisted |-> FALSE]
    /\ got = [fn |-> "none", err |-> NoError, value |-> <<>>]
    /\ pull \in [pc : {"ready"}, order : {<<>>}, calls : {<<>>},
                 storers : [Repos -> [exists : BOOLEAN, refs : {0}]],
                 drivers : {[r \in Repos |-> "none"]},
                 err : {NoError}]
    /\ ManagerIdle
    /\ RetryIdle
    /\ RepoIdle
    /\ ConfigIdle

aside == <<construction, retrying, repository, specs, kubeConfig, config, rc>>

\* A caller asks the loaded configuration a question.
Answer(fn, r) ==
    /\ pull.pc = "ready"
    /\ ~r.panic
    /\ got' = [fn |-> fn, err |-> r.err, value |-> r.value]
    /\ UNCHANGED <<pull, aside>>

CallEnsureComplete ==
    Answer("EnsureComplete", Result(<<>>, EnsureComplete(config)))

CallGetCurrentContext == Answer("GetCurrentContext", GetCurrentContext(config))

CallCurrentContextCluster ==
    Answer("CurrentContextCluster",
           CurrentContextCluster(config, kubeConfig.Contexts))

CallCurrentContextAuthInfo ==
    Answer("CurrentContextAuthInfo",
           CurrentContextAuthInfo(config, kubeConfig.Contexts))

CallCurrentContextManifest ==
    Answer("CurrentContextManifest", CurrentContextManifest(config))

\* cloneRepositories up to its loop: the current manifest is read, and the
\* range over its repositories picks an order.
PullStart ==
    /\ pull.pc = "ready"
    /\ LET currentManifest == CurrentContextManifest(config)
       IN  IF currentManifest.err # NoError
           THEN pull' = [pull EXCEPT !.pc = "returned",
                                     !.err = currentManifest.err]
           ELSE IF currentManifest.value = <<>>
           THEN pull' = [pull EXCEPT !.pc = "panicked"]
           ELSE \E order \in Ranges(DOMAIN currentManifest.value[1].Repositories) :
                   pull' = [pull EXCEPT !.pc = "loop", !.order = order]
    /\ UNCHANGED <<got, aside>>

\* One turn of the loop of cloneRepositories, for the repository repoName.
PullRepository ==
    /\ pull.pc = "loop"
    /\ pull.order # <<>>
    /\ LET repoName == Head(pull.order)
           currentManifest == CurrentContextManifest(config).value[1]
           extraRepoConfig == currentManifest.Repositories[repoName]
           validated == [repo |-> repoName, fn |-> "Validate",
                         err |-> RepositoryValidate(extraRepoConfig)]
           stop(calls, err) ==
               [pull EXCEPT !.pc = "returned", !.calls = @ \o calls,
                            !.err = err]
       IN  IF validated.err # NoError
           THEN pull' = stop(<<validated>>, validated.err)
           ELSE \E newFails, noAuth \in BOOLEAN, fault \in DownloadFaults :
                  LET made == [repo |-> repoName, fn |-> "NewRepository",
                               err |-> IF newFails THEN ErrStorer ELSE NoError]
                      d == Download([storer |-> pull.storers[repoName],
                                     worktree |-> 0, remote |-> 1,
                                     open |-> FALSE, calls |-> <<>>,
                                     err |-> NoError], fault, noAuth)
                      downloaded == [repo |-> repoName, fn |-> "Download",
                                     err |-> d.err]
                      closed == [repo |-> repoName, fn |-> "Close",
                                 err |-> NoError]
                  IN  IF newFails
                      THEN pull' = stop(<<validated, made>>, made.err)
                      ELSE IF d.err # NoError
                      THEN pull' = [stop(<<validated, made, downloaded>>, d.err)
                                      EXCEPT !.storers[repoName] = d.storer,
                                             !.drivers[repoName] =
                                                 IF d.open THEN "open" ELSE @]
                      ELSE pull' = [pull EXCEPT
                                      !.order = Tail(@),
                                      !.calls = @ \o <<validated, made,
                                                       downloaded, closed>>,
                                      !.storers[repoName] = d.storer,
                                      !.drivers[repoName] = "closed"]
    /\ UNCHANGED <<got, aside>>

\* cloneRepositories after its loop.
PullReturn ==
    /\ pull.pc = "loop"
    /\ pull.order = <<>>
    /\ pull' = [pull EXCEPT !.pc = "returned"]
    /\ UNCHANGED <<got, aside>>

NextPull ==
    \/ CallEnsureComplete
    \/ CallGetCurrentContext
    \/ CallCurrentContextCluster
    \/ CallCurrentContextAuthInfo
    \/ CallCurrentContextManifest
    \/ PullStart
    \/ PullRepository
    \/ PullReturn

SpecPull == PullInit /\ [][NextPull]_vars

TypeOK ==
    /\ pc \in {"start", "config", "validated", "phase", "selecting", "done"}
    /\ next \in 1..(Len(hosts) + 1)
    /\ ret.manager \in BOOLEAN

\* ------------------------------------------------------------- properties
\* The documents a selector matches on its own, and their names.
MatchDocs(sel) ==
    {d \in DocIds : IF sel.kind = "ByLabel" THEN sel.arg \in docBundle[d].labels
                    ELSE docBundle[d].name = sel.arg}

MatchNames(sel) == {docBundle[d].name : d \in MatchDocs(sel)}

\* NewManager reached its end: the bundle was loaded and every selector of
\* the list ran and returned no error.
AllSelectorsSucceeded ==
    /\ pc = "done"
    /\ bundleLoaded
    /\ ret.err # ErrBundle
    /\ Len(outcomes) = Len(hosts)
    /\ \A k \in 1..Len(outcomes) : outcomes[k] = NoError

\* C1: for a selector list S1..Sn (n >= 1) that ran without a selector error,
\* the names in the final Manager.Hosts are exactly the names matched by
\* every Si on its own.
C1_FinalHostsAreIntersection ==
    (AllSelectorsSucceeded /\ Len(hosts) >= 1) =>
        HostNames(Hosts) =
            {n \in Names : \A k \in 1..Len(hosts) : n \in MatchNames(hosts[k])}

\* C2: ByLabel(l) then ByName(h), both run without error: when the document
\* named h carries the label l the manager holds the single host h and
\* construction succeeds, otherwise construction ends with ErrNoHostsFound.
C2_LabelThenName ==
    (/\ AllSelectorsSucceeded
     /\ Len(hosts) = 2
     /\ hosts[1].kind = "ByLabel"
     /\ hosts[2].kind = "ByName") =>
        IF \E d \in DocIds : /\ docBundle[d].name = hosts[2].arg
                             /\ hosts[1].arg \in docBundle[d].labels
        THEN /\ ret.err = NoError
             /\ Len(Hosts) = 1
             /\ Hosts[1].HostName = hosts[2].arg
        ELSE ret.err = ErrNoHostsFound

\* C2 witness: a label matching two documents narrowed to one of them by name.
C2_Witness ==
    /\ AllSelectorsSucceeded
    /\ Len(hosts) = 2
    /\ hosts[1].kind = "ByLabel"
    /\ hosts[2].kind = "ByName"
    /\ Cardinality(MatchDocs(hosts[1])) = 2
    /\ ret.err = NoError
    /\ Len(Hosts) = 1
    /\ Hosts[1].HostName = hosts[2].arg

\* The selector the loop is about to run.
Running(kind) ==
    /\ pc = "selecting"
    /\ next <= Len(hosts)
    /\ hosts[next].kind = kind

\* C3: ByName(name) with no document of that name fails with ErrDocNotFound,
\* leaves Manager.Hosts as it was and makes NewManager return no manager;
\* with exactly one such document, run as the first selector and its host
\* built, Manager.Hosts is exactly one host of that name.
C3_ByName ==
    [][Running("ByName") =>
         LET matched == MatchDocs(hosts[next])
         IN  /\ matched = {} =>
                  /\ outcomes' = Append(outcomes, ErrDocNotFound)
                  /\ Hosts' = Hosts
                  /\ pc' = "done"
                  /\ ret' = [manager |-> FALSE, err |-> ErrDocNotFound]
             /\ (/\ Cardinality(matched) = 1
                 /\ next = 1
                 /\ outcomes' = Append(outcomes, NoError)) =>
                  /\ Len(Hosts') = 1
                  /\ Hosts'[1].HostName = hosts[next].arg
                  /\ Hosts'[1].BMCAddress \in matched]_vars

\* C3 witness: a second selector ByName that found no document, the hosts of
\* the first selector still in place.
C3_Witness ==
    /\ pc = "done"
    /\ Len(outcomes) = 2
    /\ hosts[2].kind = "ByName"
    /\ MatchDocs(hosts[2]) = {}
    /\ outcomes[2] = ErrDocNotFound
    /\ Len(Hosts) > 0
    /\ ret = [manager |-> FALSE, err |-> ErrDocNotFound]

\* C4: after ByLabel ran as the first selector over k > 0 matching documents,
\* Manager.Hosts has k hosts, one per matched document, each named after it.
C4_ByLabelFirst ==
    (/\ Len(outcomes) = 1
     /\ outcomes[1] = NoError
     /\ hosts[1].kind = "ByLabel") =>
        LET matched == MatchDocs(hosts[1])
        IN  /\ Len(Hosts) = Cardinality(matched)
            /\ {Hosts[k].BMCAddress : k \in 1..Len(Hosts)} = matched
            /\ \A k \in 1..Len(Hosts) :
                  Hosts[k].HostName = docBundle[Hosts[k].BMCAddress].name

\* C4 witness: a first ByLabel that matched every document of the bundle.
C4_Witness ==
    /\ Len(outcomes) = 1
    /\ outcomes[1] = NoError
    /\ hosts[1].kind = "ByLabel"
    /\ MatchDocs(hosts[1]) = DocIds
    /\ Len(Hosts) = NumDocs

\* C5: ByLabel(label) over no matching document returns ErrDocNotFound,
\* resolves and builds nothing, leaves Manager.Hosts as it was, and NewManager
\* fails at once with that error.
C5_ByLabelNoMatch ==
    [][(Running("ByLabel") /\ MatchDocs(hosts[next]) = {}) =>
         /\ outcomes' = Append(outcomes, ErrDocNotFound)
         /\ Hosts' = Hosts
         /\ resolutions' = resolutions
         /\ clients' = clients
         /\ next' = next
         /\ pc' = "done"
         /\ ret' = [manager |-> FALSE, err |-> ErrDocNotFound]]_vars

\* C5 witness: a second selector ByLabel that matched nothing.
C5_Witness ==
    /\ pc = "done"
    /\ Len(outcomes) = 2
    /\ hosts[2].kind = "ByLabel"
    /\ MatchDocs(hosts[2]) = {}
    /\ outcomes[2] = ErrDocNotFound
    /\ Len(Hosts) > 0
    /\ next = 2
    /\ ret = [manager |-> FALSE, err |-> ErrDocNotFound]

RecognizedType == mgmtType \in {RedfishClientType, RedfishDellClientType}

\* C6: with an unrecognized management type NewManager never gets past
\* validation: nothing is selected, no BMC data is resolved, no client is
\* built, and once the configuration was validated the result is
\* ErrUnknownManagementType without a manager.
C6_UnknownTypeFailsFirst ==
    ~RecognizedType =>
        /\ pc \in {"start", "config", "done"}
        /\ ~phaseResolved /\ ~bundleLoaded
        /\ selections = 0 /\ resolutions = 0 /\ clients = 0
        /\ outcomes = <<>>
        /\ (pc = "done" /\ validations > 0) =>
              ret = [manager |-> FALSE, err |-> ErrUnknownManagementType]

\* C6 witness: construction ended by the validation of an unrecognized type,
\* selectors having been given.
C6_Witness ==
    /\ ~RecognizedType
    /\ pc = "done"
    /\ validations = 1
    /\ Len(hosts) > 0
    /\ ret.err = ErrUnknownManagementType

\* C7: the configuration is validated at most once, and exactly once before
\* the phase is resolved, the bundle is loaded or a selector runs; a failure
\* to resolve or to validate it is what NewManager returns, with none of the
\* later steps taken.
C7_ValidateOnceFirst ==
    /\ validations <= 1
    /\ (phaseResolved \/ bundleLoaded \/ selections > 0 \/ outcomes # <<>>
        \/ pc \in {"validated", "phase", "selecting"}) =>
            (validations = 1 /\ RecognizedType)
    /\ (pc = "done" /\ validations = 0) =>
            /\ ret = [manager |-> FALSE, err |-> ErrConfig]
            /\ ~phaseResolved /\ ~bundleLoaded /\ selections = 0
            /\ resolutions = 0 /\ clients = 0 /\ outcomes = <<>>
    /\ (pc = "done" /\ validations = 1 /\ ~RecognizedType) =>
            /\ ret = [manager |-> FALSE, err |-> ErrUnknownManagementType]
            /\ ~phaseResolved /\ ~bundleLoaded /\ selections = 0
            /\ resolutions = 0 /\ clients = 0 /\ outcomes = <<>>

\* C7 witness: a construction that went on to run a selector after its one
\* validation.
C7_Witness ==
    /\ validations = 1
    /\ phaseResolved /\ bundleLoaded
    /\ selections > 0

\* C8: when every selector ran without error NewManager returns
\* ErrNoHostsFound exactly when the host list is empty (also for an empty
\* selector list); it never reports success with no hosts.
C8_EmptyResultIsError ==
    /\ AllSelectorsSucceeded =>
          /\ (Len(Hosts) = 0 <=> ret.err = ErrNoHostsFound)
          /\ ret.err \in {NoError, ErrNoHostsFound}
    /\ (pc = "done" /\ ret.err = NoError) => Len(Hosts) > 0

\* C8 witness: two selectors that both ran and left nothing.
C8_Witness ==
    /\ AllSelectorsSucceeded
    /\ Len(hosts) = 2
    /\ Len(Hosts) = 0
    /\ ret.err = ErrNoHostsFound

\* C9: ErrNoHostsFound is returned only when every selector matched a
\* document and reconciliation left no host; ErrDocNotFound only when some
\* selector matched no document.
C9_ErrorsDistinct ==
    pc = "done" =>
        /\ ret.err = ErrNoHostsFound =>
              /\ \A k \in 1..Len(hosts) : MatchDocs(hosts[k]) # {}
              /\ Len(Hosts) = 0
        /\ ret.err = ErrDocNotFound =>
              \E k \in 1..Len(hosts) : MatchDocs(hosts[k]) = {}

\* C9 witness: selectors that each match a document and share none.
C9_Witness ==
    /\ pc = "done"
    /\ ret.err = ErrNoHostsFound
    /\ Len(hosts) = 2
    /\ \A k \in 1..Len(hosts) : MatchDocs(hosts[k]) # {}

\* C10: in a manager returned without error no two hosts have the same
\* HostName, whatever the bundle contains.
C10_HostNamesUnique ==
    (pc = "done" /\ ret.err = NoError) =>
        \A j, k \in 1..Len(Hosts) :
            Hosts[j].HostName = Hosts[k].HostName => j = k

\* The selector outcome that the bundle alone decides: no match, or more
\* than one match for a ByName.
SelectionError(sel) ==
    IF MatchDocs(sel) = {} THEN ErrDocNotFound
    ELSE IF sel.kind = "ByName" /\ Cardinality(MatchDocs(sel)) > 1
    THEN ErrMultiDocsFound
    ELSE NoError

\* C11: the selectors run one at a time in the order given (the k-th
\* outcome is the k-th selector's, every selector before the last one run
\* returned no error); the first error ends construction: no later selector
\* is invoked and NewManager returns that error without a manager.
C11_InOrderAbortOnError ==
    /\ Len(outcomes) <= Len(hosts)
    /\ selections = Len(outcomes)
    /\ \A k \in 1..Len(outcomes) :
          /\ k < Len(outcomes) => outcomes[k] = NoError
          /\ SelectionError(hosts[k]) # NoError =>
                outcomes[k] = SelectionError(hosts[k])
          /\ outcomes[k] \in {ErrDocNotFound, ErrMultiDocsFound} =>
                outcomes[k] = SelectionError(hosts[k])
    /\ IF outcomes # <<>> /\ outcomes[Len(outcomes)] # NoError
       THEN /\ pc = "done"
            /\ next = Len(outcomes)
            /\ ret = [manager |-> FALSE, err |-> outcomes[Len(outcomes)]]
       ELSE pc \in {"selecting", "done"} => next = Len(outcomes) + 1

\* C11 witness: the second of three selectors failed and the third never ran.
C11_Witness ==
    /\ pc = "done"
    /\ Len(hosts) = 3
    /\ Len(outcomes) = 2
    /\ selections = 2
    /\ outcomes[2] # NoError
    /\ ret = [manager |-> FALSE, err |-> outcomes[2]]

\* The documents a selector hands to newBaremetalHost.
SelectedDocs(sel) ==
    IF SelectionError(sel) = NoError THEN MatchDocs(sel) ELSE {}

\* C12: when the unresolvable document is among those a selector matched,
\* the selector returns the resolution error, Manager.Hosts stays as it was
\* and NewManager fails with that error, whether or not reconciliation would
\* have kept the document's host.
C12_ResolutionErrorIsFatal ==
    [][(/\ pc = "selecting"
        /\ next <= Len(hosts)
        /\ faultyDoc \in SelectedDocs(hosts[next])) =>
            /\ outcomes'[next] \in {ErrBMCAddress, ErrBMCCredentials, ErrClient}
            /\ Hosts' = Hosts
            /\ pc' = "done"
            /\ ret' = [manager |-> FALSE, err |-> outcomes'[next]]]_vars

\* C12 witness: a later selector failed on the address or the credentials of
\* a document whose name is not among the hosts selected so far.
C12_Witness ==
    /\ pc = "done"
    /\ Len(outcomes) = 2
    /\ outcomes[2] \in {ErrBMCAddress, ErrBMCCredentials}
    /\ Len(Hosts) > 0
    /\ faultyDoc \in SelectedDocs(hosts[2])
    /\ docBundle[faultyDoc].name \notin HostNames(Hosts)
    /\ Cardinality(SelectedDocs(hosts[2])) = 2

\* What a caller can observe of host k: its context and its last result.
HostState(k) == <<contexts[Hosts[k].Context], results[Hosts[k].Client]>>

\* C13: in a manager returned without error every host has a Client and a
\* Context of its own, each from one constructor call, and an operation on
\* any host stays possible whatever happened to the others; a step changes
\* the state of at most one host.
C13_HostsIndependent ==
    /\ [](Ready =>
            /\ \A j, k \in 1..Len(Hosts) :
                  j # k => /\ Hosts[j].Client # Hosts[k].Client
                           /\ Hosts[j].Context # Hosts[k].Context
            /\ \A k \in 1..Len(Hosts) :
                  /\ Hosts[k].Client \in 1..clients
                  /\ Hosts[k].Context \in 1..clients
                  /\ ENABLED HostOperation(k))
    /\ [][Ready =>
            \A j, k \in 1..Len(Hosts) :
               (HostState(j)' # HostState(j) /\ HostState(k)' # HostState(k))
                  => j = k]_vars

\* C13 witness: one host failed, another was cancelled, and both can still
\* be operated.
C13_Witness ==
    /\ Ready
    /\ Len(Hosts) = 2
    /\ HostState(1) = <<"live", "failed">>
    /\ HostState(2) = <<"cancelled", "cancelled">>
    /\ ENABLED HostOperation(1)

\* C14: an operation makes at most SystemActionRetries + 1 attempts, pausing
\* for SystemRebootDelay between two attempts; it succeeds at the first
\* attempt that does not fail, and reports an error when the attempts are
\* used up.  With 2 retries and an action failing twice it succeeds at the
\* third attempt after two pauses.
C14_BoundedRetries ==
    /\ op.attempts <= mgmtCfg.SystemActionRetries + 1
    /\ op.slept = op.pauses * mgmtCfg.SystemRebootDelay
    /\ op.pc \in {"succeeded", "exhausted"} =>
          /\ op.pauses = op.attempts - 1
          /\ op.pc = "succeeded" <=> op.failures <= mgmtCfg.SystemActionRetries
          /\ op.pc = "succeeded" => op.attempts = op.failures + 1
          /\ op.pc = "exhausted" =>
                op.attempts = mgmtCfg.SystemActionRetries + 1
    /\ (/\ op.pc \in {"succeeded", "exhausted"}
        /\ mgmtCfg.SystemActionRetries = 2
        /\ op.failures = 2) =>
          /\ op.pc = "succeeded"
          /\ op.attempts = 3
          /\ op.pauses = 2

\* C14 witness: two retries configured, two failures, success at the third
\* attempt.
C14_Witness ==
    /\ mgmtCfg.SystemActionRetries = 2
    /\ op.failures = 2
    /\ op.pc = "succeeded"
    /\ op.attempts = 3
    /\ op.pauses = 2
    /\ op.slept = 2 * mgmtCfg.SystemRebootDelay

\* The driver calls of the last call of a Repository method, by name.
CallNames == [i \in 1..Len(last.calls) |-> last.calls[i].fn]

\* C15: a Download on a driver that is not open clones first; when the clone
\* finds a repository it opens it instead; after either it checks out.  So a
\* Download that follows a successful Download of another Repository object
\* over the same storer succeeds when nothing outside fails, and both drivers
\* are open.
C15_DownloadClonesOrOpens ==
    /\ (last.op = "Download" /\ ~last.wasOpen /\ ~authFails[last.repo]) =>
          LET c == last.calls
              n == IF c[1].err = NoError THEN 1 ELSE 2
          IN  /\ Len(c) >= 1
              /\ c[1].fn = "Clone"
              /\ c[1].err = ErrRepositoryAlreadyExists <=> last.before.exists
              /\ c[1].err = ErrRepositoryAlreadyExists =>
                    Len(c) >= 2 /\ c[2].fn = "Open"
              /\ c[1].err \notin {NoError, ErrRepositoryAlreadyExists} =>
                    Len(c) = 1 /\ last.err = c[1].err
              /\ (Len(c) >= n /\ c[n].err = NoError) =>
                    /\ Len(c) > n
                    /\ c[n + 1].fn = "Worktree"
                    /\ driver[last.repo]
                    /\ last.err = c[Len(c)].err
    /\ (/\ last.op = "Download"
        /\ prev.op = "Download"
        /\ prev.repo # last.repo
        /\ prev.err = NoError
        /\ last.fault = "none"
        /\ ~authFails[last.repo]) =>
          /\ last.err = NoError
          /\ driver[last.repo]
          /\ driver[prev.repo]
          /\ worktree = storer.refs

\* C15 witness: the second of two Downloads by two Repository objects found
\* the repository of the first, opened it and checked out.
C15_Witness ==
    /\ last.op = "Download"
    /\ prev.op = "Download"
    /\ prev.repo # last.repo
    /\ prev.err = NoError
    /\ last.err = NoError
    /\ CallNames = <<"Clone", "Open", "Worktree", "Checkout">>
    /\ \A r \in Repos : driver[r]

\* C16: a Download never calls Fetch, and leaves a repository it found as it
\* was: the refs of an existing repository only change in an Update, the only
\* method that fetches.
C16_DownloadNeverFetches ==
    /\ last.op = "Download" =>
          /\ \A i \in 1..Len(last.calls) : last.calls[i].fn # "Fetch"
          /\ last.before.exists => storer = last.before
    /\ (\E i \in 1..Len(last.calls) : last.calls[i].fn = "Fetch") =>
          last.op = "Update"
    /\ (last.before.exists /\ storer # last.before) => last.op = "Update"

\* C16 witness: a Download opened a repository that was behind its remote,
\* checked it out and left it behind.
C16_Witness ==
    /\ last.op = "Download"
    /\ last.err = NoError
    /\ last.before.exists
    /\ CallNames = <<"Clone", "Open", "Worktree", "Checkout">>
    /\ storer.refs < remote
    /\ prev.op = "Close"

\* C17: Update and Checkout on a driver that is not open return ErrNoOpenRepo
\* and call nothing; a Close leaves the driver not open, and a driver only
\* becomes open in a call whose Open or Clone succeeded.
C17_NoOpenRepo ==
    /\ [](/\ (last.op \in {"Update", "Checkout"} /\ ~last.wasOpen) =>
                /\ last.err = ErrNoOpenRepo
                /\ last.calls = <<>>
                /\ storer = last.before
                /\ ~driver[last.repo]
          /\ last.op = "Close" => ~driver[last.repo])
    /\ [][\A r \in Repos :
            (~driver[r] /\ driver'[r]) =>
                /\ last'.repo = r
                /\ \E i \in 1..Len(last'.calls) :
                      /\ last'.calls[i].fn \in {"Open", "Clone"}
                      /\ last'.calls[i].err = NoError]_vars

\* C17 witness: an Update on a driver that was closed a moment ago, over a
\* repository that exists.
C17_Witness ==
    /\ last.op = "Update"
    /\ prev.op = "Close"
    /\ prev.repo = last.repo
    /\ last.err = ErrNoOpenRepo
    /\ storer.exists
    /\ storer.refs < remote

\* The fields of an auth block that belong to one auth type.
TypedFields == {"KeyPassword", "KeyPath", "HTTPPassword", "SSHPassword"}
FieldsOf(type) ==
    CASE type = SSHAuth -> {"KeyPassword", "KeyPath"}
      [] type = SSHPass -> {"SSHPassword"}
      [] type = HTTPBasic -> {"HTTPPassword"}
      [] OTHER -> {}

\* The repository specs that are to be accepted.
Acceptable(s) ==
    /\ s.URLString # ""
    /\ s.Auth # <<>> =>
          /\ s.Auth[1].Type \in {"ssh-key", "ssh-pass", "http-basic"}
          /\ \A f \in TypedFields \ FieldsOf(s.Auth[1].Type) : s.Auth[1][f] = ""
    /\ s.CheckoutOptions # <<>> =>
          /\ Cardinality({f \in {"CommitHash", "Branch", "Tag", "RemoteRef"} :
                            s.CheckoutOptions[1][f] # ""}) <= 1
          /\ s.CheckoutOptions[1].RemoteRef = ""

\* C18: Validate accepts a spec exactly when its URL is set, its auth block
\* (if any) has an allowed type and no field of another type, and its
\* checkout block (if any) sets at most one field and no remote-ref; and
\* NewRepositoryFromSpec returns an error and no repository for every other
\* spec.
C18_ValidateAcceptsExactly ==
    /\ call.fn = "Validate" => (call.out.err = NoError <=> Acceptable(spec))
    /\ (call.fn = "NewRepositoryFromSpec" /\ ~Acceptable(call.arg[1])) =>
          /\ call.out.err # NoError
          /\ ~call.out.repo
          /\ spec = call.arg[1]

\* C18 witness: NewRepositoryFromSpec refused an ssh-pass block that carries
\* an http password and nothing else wrong.
C18_Witness ==
    /\ call.fn = "NewRepositoryFromSpec"
    /\ spec.URLString # ""
    /\ spec.Auth # <<>>
    /\ spec.Auth[1].Type = SSHPass
    /\ spec.Auth[1].HTTPPassword # ""
    /\ spec.Auth[1].KeyPath = ""
    /\ spec.Auth[1].KeyPassword = ""
    /\ spec.CheckoutOptions = <<>>
    /\ call.out.err = ErrMutuallyExclusiveAuthSSHPass
    /\ ~call.out.repo

\* C19: ToAuth of an ssh-pass block gives a password method with the block's
\* username and its SSHPassword; without an auth block it gives no method
\* and no error; for a type it does not know it gives no method and an
\* error.
C19_ToAuthSSHPass ==
    call.fn = "ToAuth" =>
        /\ spec.Auth = <<>> =>
              call.out = [method |-> <<>>, err |-> NoError]
        /\ (spec.Auth # <<>> /\ spec.Auth[1].Type = SSHPass) =>
              call.out = [method |-> <<[kind |-> "ssh.Password",
                                        User |-> spec.Auth[1].Username,
                                        Password |-> spec.Auth[1].SSHPassword]>>,
                          err |-> NoError]
        /\ (spec.Auth # <<>> /\ spec.Auth[1].Type \notin AllowedAuthTypes) =>
              call.out.method = <<>> /\ call.out.err # NoError

\* C20: Equal on specs, auth blocks and checkout blocks is true for the
\* value itself, false for nil and false for a value that differs in a field.
C20_EqualIsEquality ==
    /\ call.fn = "Equal" => (call.out.ok <=> call.arg = <<spec>>)
    /\ call.fn = "RepoAuth.Equal" => (call.out.ok <=> call.arg = spec.Auth)
    /\ call.fn = "RepoCheckout.Equal" =>
          (call.out.ok <=> call.arg = spec.CheckoutOptions)

\* C22: once the first selector has run, a later selector only removes host
\* names: the names after it are among the names before it.
C22_SelectorsOnlyRemove ==
    [][(pc = "selecting" /\ next > 1 /\ next <= Len(hosts)) =>
          HostNames(Hosts') \subseteq HostNames(Hosts)]_vars

\* What the selectors sels, run in this order over the bundle with every
\* document resolvable, leave NewManager to return: the kind of error and the
\* host names.
RECURSIVE RunSelectors(_, _, _)
RunSelectors(sels, k, aHosts) ==
    IF k > Len(sels)
    THEN [err |-> IF Len(aHosts) = 0 THEN ErrNoHostsFound ELSE NoError,
          names |-> HostNames(aHosts)]
    ELSE LET r == addHost(sels[k], aHosts,
                          Env(mgmtType, docBundle, 0, "address"), 1)
         IN  IF r.err # NoError THEN [err |-> r.err, names |-> {}]
             ELSE RunSelectors(sels, k + 1, r.Hosts)

\* The orders a selector list can be given in.
Orders(n) == {p \in [1..n -> 1..n] : \A i, j \in 1..n : p[i] = p[j] => i = j}

\* C25: the outcome of NewManager is the same for every order of its
\* selectors: the same kind of error, or success with the same host names.
\* Stated for the lists of which every selector matches documents and no
\* document fails to resolve, where only reconciliation decides the outcome.
C25_OrderIndependent ==
    (/\ pc = "done" /\ bundleLoaded /\ ret.err # ErrBundle /\ faultyDoc = 0
     /\ \A k \in 1..Len(hosts) : SelectionError(hosts[k]) = NoError) =>
        \A p \in Orders(Len(hosts)) :
            RunSelectors([i \in 1..Len(hosts) |-> hosts[p[i]]], 1, <<>>)
                = [err |-> ret.err,
                   names |-> IF ret.err = NoError THEN HostNames(Hosts)
                             ELSE {}]

\* C26: NewManager never returns a manager together with an error.
C26_ErrorMeansNilManager ==
    (pc = "done" /\ ret.err # NoError) => ~ret.manager

\* C30: when the clone of a Download finds a repository and the Open after
\* it fails, the Download checks nothing out, leaves the driver not open and
\* returns the error of the Open.
C30_DownloadReturnsOpenError ==
    (/\ last.op = "Download"
     /\ Len(last.calls) >= 2
     /\ last.calls[1] = [fn |-> "Clone", err |-> ErrRepositoryAlreadyExists]
     /\ last.calls[2].fn = "Open"
     /\ last.calls[2].err # NoError) =>
        /\ Len(last.calls) = 2
        /\ ~driver[last.repo]
        /\ last.err = last.calls[2].err

\* C23: after reconcileClusters every kubeconfig cluster key is a name and a
\* type that validName accepts; every kubeconfig cluster has the airship entry
\* of that name and type, with that key as NameInKubeconf; no airship entry
\* names a key
\* the kubeconfig does not have; and persistIt is true exactly when a
\* kubeconfig name is gone or an airship entry was deleted.
C23_ClustersReconciled ==
    [][(rc.pc = "loaded" /\ rc'.pc = "clusters") =>
          LET kube == kubeConfig'.Clusters
              Clusters == config'.Clusters
          IN  /\ \A k \in DOMAIN kube :
                    /\ Len(k) = 2
                    /\ validName(FromName(NewClusterComplexName, k))
              /\ \A k \in DOMAIN kube :
                    /\ k \in DOMAIN Clusters
                    /\ Clusters[k].NameInKubeconf = k
              /\ \A s \in DOMAIN Clusters :
                    Clusters[s].NameInKubeconf \in DOMAIN kube
              /\ rc'.persistIt <=>
                    \/ DOMAIN kubeConfig.Clusters \ DOMAIN kube # {}
                    \/ DOMAIN config.Clusters \ DOMAIN Clusters # {}]_vars

\* C27: reconcileClusters keeps every kubeconfig cluster: as many clusters
\* after as before, each of them still in the kubeconfig under some name.
C27_NoClusterLost ==
    [][(rc.pc = "loaded" /\ rc'.pc = "clusters") =>
          /\ Cardinality(DOMAIN kubeConfig'.Clusters)
                = Cardinality(DOMAIN kubeConfig.Clusters)
          /\ \A k \in DOMAIN kubeConfig.Clusters :
                \E n \in DOMAIN kubeConfig'.Clusters :
                    kubeConfig'.Clusters[n] = kubeConfig.Clusters[k]]_vars

\* C24: after reconcileContexts and reconcileCurrentContext the two context
\* maps have the same keys; an airship current context that names a context
\* has become the kubeconfig's; otherwise a kubeconfig current context that
\* names a context has become the airship's; otherwise both are as loaded.
C24_ContextsReconciled ==
    /\ [](rc.pc \in {"contexts", "authinfos", "reconciled"} =>
             DOMAIN config.Contexts = DOMAIN kubeConfig.Contexts)
    /\ [][(rc.pc = "authinfos" /\ rc'.pc = "reconciled") =>
             LET Contexts == DOMAIN config.Contexts
             IN  /\ UNCHANGED <<config.Contexts, kubeConfig.Contexts>>
                 /\ IF config.CurrentContext \in Contexts
                    THEN /\ kubeConfig'.CurrentContext = config.CurrentContext
                         /\ UNCHANGED config.CurrentContext
                    ELSE IF kubeConfig.CurrentContext \in Contexts
                    THEN /\ config'.CurrentContext = kubeConfig.CurrentContext
                         /\ UNCHANGED kubeConfig.CurrentContext
                    ELSE UNCHANGED <<config.CurrentContext,
                                     kubeConfig.CurrentContext>>]_vars

\* C24 witness: the airship current context named a context and replaced a
\* different current context of the kubeconfig.
C24_Witness ==
    /\ rc.pc = "reconciled"
    /\ config.CurrentContext = "c1"
    /\ kubeConfig.CurrentContext = "c1"
    /\ DOMAIN config.Contexts = {"c1", "c2"}
    /\ DOMAIN kubeConfig.Contexts = {"c1", "c2"}

\* C21: EnsureComplete returns no error only for a configuration with a
\* cluster, a user, a context, a current context that names a context, and a
\* manifest; and an accessor of the current context returns an error whenever
\* EnsureComplete does.
C21_CompleteMeansAllDefined ==
    /\ (got.fn = "EnsureComplete" /\ got.err = NoError) =>
          /\ DOMAIN config.Clusters # {}
          /\ config.AuthInfos # {}
          /\ DOMAIN config.Contexts # {}
          /\ config.CurrentContext \in DOMAIN config.Contexts
          /\ DOMAIN config.Manifests # {}
    /\ (/\ got.fn \in {"GetCurrentContext", "CurrentContextCluster",
                       "CurrentContextAuthInfo", "CurrentContextManifest"}
        /\ EnsureComplete(config) # NoError) => got.err # NoError

\* C28: CurrentContextManifest never returns a nil manifest with a nil
\* error, and cloneRepositories never dereferences a nil manifest.
C28_ManifestOrError ==
    /\ (got.fn = "CurrentContextManifest" /\ got.err = NoError) =>
          got.value # <<>>
    /\ pull.pc # "panicked"

\* The calls of cloneRepositories come in turns of Validate, NewRepository,
\* Download and Close on one repository, and nothing follows a failed call.
OneAtATime(calls) ==
    \A i \in 1..Len(calls) :
        /\ i < Len(calls) => calls[i].err = NoError
        /\ IF calls[i].fn = "Validate"
           THEN /\ i > 1 => calls[i - 1].fn = "Close"
                /\ \A j \in 1..(i - 1) : calls[j].repo # calls[i].repo
           ELSE /\ i > 1
                /\ calls[i - 1].repo = calls[i].repo
                /\ calls[i - 1].fn =
                      CASE calls[i].fn = "NewRepository" -> "Validate"
                        [] calls[i].fn = "Download" -> "NewRepository"
                        [] calls[i].fn = "Close" -> "Download"

\* C29: cloneRepositories handles one repository at a time and stops at the
\* first failure, and when it has returned no driver it opened is open.
C29_PullClosesDrivers ==
    /\ OneAtATime(pull.calls)
    /\ pull.pc = "returned" =>
          /\ pull.err = NoError =>
                \A i \in 1..Len(pull.calls) : pull.calls[i].err = NoError
          /\ pull.err # NoError /\ pull.calls # <<>> =>
                pull.calls[Len(pull.calls)].err = pull.err
          /\ \A r \in Repos : pull.drivers[r] # "open"

====
